---- MODULE Spec2Model ----
(***************************************************************************)
(* Model of the payment interrupt manager of Curtain-Lights                *)
(* (src/app/payment_interrupts.py) running on a single asyncio event loop. *)
(*                                                                         *)
(* The event loop is modelled by its FIFO ready queue: a coroutine runs    *)
(* from one await to the next as one atomic action, the completion of an   *)
(* awaited I/O operation (an HTTP call of the device API, a sleep) appends *)
(* the waiting coroutine to the ready queue, and Task.cancel() wakes the   *)
(* cancelled task with a CancelledError at its await.                      *)
(*                                                                         *)
(* Amounts are in cents, so that 19.99 is 1999 and `amount >= 100` reads   *)
(* `cents >= 10000`.  Time is in whole seconds, measured by each           *)
(* celebration run from its own start_time.                                *)
(***************************************************************************)
EXTENDS Integers, Sequences, FiniteSets, TLC

(* ----------------------------- bounds --------------------------------- *)

\* number of trigger_payment_celebration calls the environment makes
MaxTriggers == 2
\* number of stop_current_interrupt calls the environment makes
MaxStops == 2

Calls == 1..MaxTriggers
Stops == 1..MaxStops

\* amounts (in cents) of the payments that arrive in the concurrent model
Amounts == {500, 2000}

(* --------------------------- optional values --------------------------- *)

\* Python's None; Some(x) is a present value
None == <<>>
Some(x) == <<x>>
Get(o) == o[1]

InSeq(x, s) == \E i \in 1..Len(s) : s[i] = x

(* --------------------------- pattern selector -------------------------- *)

Gold == <<255, 215, 0>>
Purple == <<138, 43, 226>>
White == <<255, 255, 255>>
Green == <<0, 255, 0>>
Yellow == <<255, 255, 0>>

Step(c, b, d) == [color |-> c, brightness |-> b, duration |-> d]

\* a selector that uses strict lower bounds (amount > 100 ...)
_get_celebration_pattern_strict(amount) ==
    IF amount > 10000 THEN
        [name |-> "Premium Celebration", duration |-> 30,
         patterns |-> << Step(Gold, 100, 2), Step(Purple, 100, 2),
                         Step(White, 100, 1), Step(Gold, 100, 2) >>]
    ELSE IF amount > 5000 THEN
        [name |-> "Major Sale", duration |-> 20,
         patterns |-> << Step(Green, 100, 2), Step(Yellow, 100, 2),
                         Step(White, 100, 1) >>]
    ELSE IF amount > 2000 THEN
        [name |-> "Standard Celebration", duration |-> 15,
         patterns |-> << Step(Green, 80, 3), Step(White, 80, 1) >>]
    ELSE
        [name |-> "Mini Celebration", duration |-> 10,
         patterns |-> << Step(Green, 60, 2), Step(White, 60, 1) >>]

_get_celebration_pattern(amount) ==
    IF amount >= 10000 THEN
        [name |-> "Premium Celebration", duration |-> 30,
         patterns |-> << Step(Gold, 100, 2), Step(Purple, 100, 2),
                         Step(White, 100, 1), Step(Gold, 100, 2) >>]
    ELSE IF amount >= 5000 THEN
        [name |-> "Major Sale", duration |-> 20,
         patterns |-> << Step(Green, 100, 2), Step(Yellow, 100, 2),
                         Step(White, 100, 1) >>]
    ELSE IF amount >= 2000 THEN
        [name |-> "Standard Celebration", duration |-> 15,
         patterns |-> << Step(Green, 80, 3), Step(White, 80, 1) >>]
    ELSE
        [name |-> "Mini Celebration", duration |-> 10,
         patterns |-> << Step(Green, 60, 2), Step(White, 60, 1) >>]

(* ------------------------------- state --------------------------------- *)

VARIABLES
    current_interrupt,  \* PaymentInterruptManager.current_interrupt
    original_state,     \* PaymentInterruptManager.original_state
    interrupt_task,     \* PaymentInterruptManager.interrupt_task
    task,               \* the asyncio tasks running _run_celebration
    trig,               \* the calls of trigger_payment_celebration
    stop,               \* the calls of stop_current_interrupt
    ready,              \* the event loop's FIFO queue of ready coroutines
    dev                 \* the state of the light

\* the payment interrupt manager and its event loop
payvars == << current_interrupt, original_state, interrupt_task, task, trig,
              stop, ready, dev >>

VARIABLES
    last_subscriber_count,  \* YouTubeMonitor.last_subscriber_count
    monitoring_active,      \* YouTubeMonitor.monitoring_active
    channel,                \* the subscriberCount YouTube reports for the channel
    poll,                   \* the position of check_subscriber_milestones_task
    milestone_check,        \* the result of the milestone check that just returned
    fires,                  \* should_celebrate reports since the count last changed
    subscriber_check        \* what check_for_new_subscribers has just returned

\* the YouTube monitor (src/app/youtube.py)
monvars == << last_subscriber_count, monitoring_active, channel, poll,
              milestone_check, fires, subscriber_check >>

VARIABLES
    limiter,            \* the RateLimiter instance: its parameters and requests
    now,                \* datetime.now(), in seconds
    admitted,           \* the timestamps wait_if_needed has recorded, in order
    creds,              \* whether the Govee credentials are in the environment
    op                  \* the device operation that just returned

\* the Govee device client (src/app/govee.py) and the direct requests of main.py
govvars == << limiter, now, admitted, creds, op >>

VARIABLES
    hook                \* the calls of the /stripe webhook handler

VARIABLES
    user_settings,      \* the user's stored settings: last_subscriber_count
    google_tokens,      \* whether the user has connected a Google account
    upcoming,           \* whether the calendar holds an event in the next 10 min
    cron                \* the invocations of the /cron poller

\* the /cron poller (src/app/main.py) and what it reads
cronvars == << user_settings, google_tokens, upcoming, cron >>

VARIABLES
    thread              \* the thread of the event loop: None, or the second
                        \* at which the time.sleep it is blocked in returns

\* the parts of the process other than the payment interrupt manager
notpay == << monvars, govvars, hook, cronvars, thread >>

vars == << payvars, monvars, govvars, hook, cronvars, thread >>

\* the states the light can be in before any celebration
UserStates ==
    { [power |-> "on", brightness |-> 50, color |-> <<0, 0, 255>>, by |-> "user"] }

TaskInit == [pc |-> "none", idx |-> 0, elapsed |-> 0, cancel |-> FALSE,
             phase |-> "run"]

NoResult == [status |-> "none", pattern |-> "", duration |-> 0, amount |-> 0]

Init ==
    /\ current_interrupt = None
    /\ original_state = None
    /\ interrupt_task = None
    /\ task = [t \in Calls |-> TaskInit]
    /\ trig = [c \in Calls |-> [pc |-> "idle", amount |-> 0, source |-> "",
                                result |-> NoResult]]
    /\ stop = [s \in Stops |-> [pc |-> "idle", result |-> "none"]]
    /\ ready = << >>
    /\ dev \in UserStates

(* ---------------------------- device client ---------------------------- *)

\* GoveeAPI.control_device: one control request; when it succeeds the light
\* takes the requested power, brightness and colour.  The request is sent
\* when the coroutine starts to await it.
control_device(target, ok) ==
    dev' = IF ok THEN target ELSE dev

\* the light as a step of a pattern sets it (turn_on=True)
StepLook(p) ==
    [power |-> "on", brightness |-> p.brightness, color |-> p.color, by |-> "step"]

(* --------------------------- asyncio.Task ------------------------------ *)

\* Task.done(): the coroutine has ended ("dropped": it was cancelled before
\* its first run and never entered its body)
Finished(tk) == tk.pc \in {"done", "dropped"}
\* the coroutine is suspended at an await
Waiting(tk) == tk.pc \in {"get_devices", "control", "sleep", "restore"}

\* a cancel() that requests nothing
task_cancel_noop(tk, t) == tk

\* Task.cancel(): no effect on a finished task, else a CancelledError is
\* thrown into the task the next time it runs
task_cancel(tk, t) ==
    IF Finished(tk[t]) THEN tk ELSE [tk EXCEPT ![t].cancel = TRUE]

\* Task.cancel() wakes a task that is suspended at an await
cancel_wakeup(tk, rq, t) ==
    IF Finished(tk[t]) \/ InSeq(<<"task", t>>, rq)
    THEN rq ELSE Append(rq, <<"task", t>>)

\* asyncio.create_task: the task is scheduled, it has not run yet
\* a trigger that returns only once the celebration is over
create_task_awaited == [TaskInit EXCEPT !.pc = "done"]

create_task == [TaskInit EXCEPT !.pc = "created"]

(* ----------------------- _restore_original_state ----------------------- *)

\* a restore that falls back to a default state when nothing was saved
RestoreTarget_default ==
    IF original_state = None
    THEN Some([power |-> "on", brightness |-> 100, color |-> White,
               by |-> "user"])
    ELSE LET ds == Get(original_state).device_states
         IN IF ds = << >> \/ ds[1] = None THEN None ELSE ds[1]

\* the device state _restore_original_state sends back, if any
RestoreTarget ==
    IF original_state = None THEN None
    ELSE LET ds == Get(original_state).device_states
         IN IF ds = << >> \/ ds[1] = None THEN None ELSE ds[1]

\* _restore_original_state up to its await: issues the control request of
\* the saved state, or nothing when there is nothing to restore
_restore_original_state ==
    IF RestoreTarget # None
    THEN \E ok \in BOOLEAN : control_device(Get(RestoreTarget), ok)
    ELSE UNCHANGED dev

(* --------------------------- _run_celebration -------------------------- *)

PatternOf(t) == _get_celebration_pattern(trig[t].amount)

\* the finally clause that leaves the record of the session in place
finally_keep == current_interrupt

\* finally: self.current_interrupt = None
finally_current_interrupt == None

\* the task ends through its finally clause
TaskFinally(t, tk) ==
    /\ task' = [tk EXCEPT ![t] = [TaskInit EXCEPT !.pc = "done"]]
    /\ current_interrupt' = finally_current_interrupt

\* await self._restore_original_state() at line 173 (phase "normal") or in
\* an except clause, lines 177 and 180 (phase "handler")
TaskRestore(t, phase) ==
    /\ _restore_original_state
    /\ IF RestoreTarget # None
       THEN /\ task' = [task EXCEPT ![t].pc = "restore", ![t].phase = phase,
                                    ![t].cancel = FALSE]
            /\ UNCHANGED current_interrupt
       ELSE TaskFinally(t, task)

\* a step whose failed control request ends the run
TaskStep_abort(t, i, e) ==
    \E ok \in BOOLEAN :
       /\ control_device(StepLook(PatternOf(t).patterns[i]), ok)
       /\ IF ok
          THEN /\ task' = [task EXCEPT ![t].pc = "control", ![t].idx = i,
                                       ![t].elapsed = e]
               /\ UNCHANGED current_interrupt
          ELSE TaskFinally(t, task)

\* the body of the for loop up to the await of control_device; a request
\* that fails or raises is logged and the loop goes on (lines 154-162)
TaskStep(t, i, e) ==
    /\ \E ok \in BOOLEAN :
          control_device(StepLook(PatternOf(t).patterns[i]), ok)
    /\ task' = [task EXCEPT ![t].pc = "control", ![t].idx = i, ![t].elapsed = e]
    /\ UNCHANGED current_interrupt

Runs(t) == ready # << >> /\ Head(ready) = <<"task", t>>

\* the first run of the task: a task cancelled before it ran ends without
\* entering the coroutine's try block
TaskStart(t) ==
    /\ Runs(t) /\ task[t].pc = "created"
    /\ ready' = Tail(ready)
    /\ task' = IF task[t].cancel
               THEN [task EXCEPT ![t] = [TaskInit EXCEPT !.pc = "dropped"]]
               ELSE [task EXCEPT ![t].pc = "get_devices"]
    /\ UNCHANGED << current_interrupt, original_state, interrupt_task, trig,
                    stop, dev >>
    /\ UNCHANGED notpay

\* resumes from await self.govee_api.get_devices() (line 136)
TaskGotDevices(t) ==
    /\ Runs(t) /\ task[t].pc = "get_devices"
    /\ ready' = Tail(ready)
    /\ IF task[t].cancel
       THEN TaskRestore(t, "handler")
       ELSE \E r \in {"raise", "empty", "dev"} :
              CASE r = "raise" -> TaskRestore(t, "handler")
                [] r = "empty" -> /\ TaskFinally(t, task)
                                  /\ UNCHANGED dev
                [] r = "dev" ->
                     IF 0 < PatternOf(t).duration
                     THEN TaskStep(t, 1, 0)
                     ELSE TaskRestore(t, "normal")
    /\ UNCHANGED << original_state, interrupt_task, trig, stop >>
    /\ UNCHANGED notpay

\* resumes from await self.govee_api.control_device(...) (line 155)
TaskControlled(t) ==
    /\ Runs(t) /\ task[t].pc = "control"
    /\ ready' = Tail(ready)
    /\ IF task[t].cancel
       THEN TaskRestore(t, "handler")
       ELSE /\ task' = [task EXCEPT ![t].pc = "sleep"]
            /\ UNCHANGED << current_interrupt, dev >>
    /\ UNCHANGED << original_state, interrupt_task, trig, stop >>
    /\ UNCHANGED notpay

\* a run that sends the same step again after its hold
TaskSlept_same(t) ==
    /\ Runs(t) /\ task[t].pc = "sleep"
    /\ ready' = Tail(ready)
    /\ IF task[t].cancel
       THEN TaskRestore(t, "handler")
       ELSE LET pat == PatternOf(t)
                e == task[t].elapsed + pat.patterns[task[t].idx].duration
            IN IF e >= pat.duration
               THEN TaskRestore(t, "normal")
               ELSE TaskStep(t, task[t].idx, e)
    /\ UNCHANGED << original_state, interrupt_task, trig, stop >>
    /\ UNCHANGED notpay

\* resumes from await asyncio.sleep(pattern["duration"]) (line 165)
TaskSlept(t) ==
    /\ Runs(t) /\ task[t].pc = "sleep"
    /\ ready' = Tail(ready)
    /\ IF task[t].cancel
       THEN TaskRestore(t, "handler")
       ELSE LET pat == PatternOf(t)
                e == task[t].elapsed + pat.patterns[task[t].idx].duration
                i == IF task[t].idx = Len(pat.patterns) THEN 1
                     ELSE task[t].idx + 1
            IN IF e >= pat.duration
               THEN TaskRestore(t, "normal")
               ELSE TaskStep(t, i, e)
    /\ UNCHANGED << original_state, interrupt_task, trig, stop >>
    /\ UNCHANGED notpay

\* resumes from the await of control_device in _restore_original_state
TaskRestored(t) ==
    /\ Runs(t) /\ task[t].pc = "restore"
    /\ ready' = Tail(ready)
    /\ IF task[t].cancel /\ task[t].phase = "normal"
       THEN TaskRestore(t, "handler")
       ELSE /\ TaskFinally(t, task)
            /\ UNCHANGED dev
    /\ UNCHANGED << original_state, interrupt_task, trig, stop >>
    /\ UNCHANGED notpay

(* ----------------------- trigger_payment_celebration ------------------- *)

RunsCall(kind, c) == ready # << >> /\ Head(ready) = <<kind, c>>

\* a payment arrives: the handler's coroutine is scheduled on the loop
TriggerInvokeFrom(c, amounts) ==
    /\ trig[c].pc = "idle"
    /\ IF c = 1 THEN TRUE ELSE trig[c - 1].pc # "idle"
    /\ \E a \in amounts :
          trig' = [trig EXCEPT ![c].pc = "start", ![c].amount = a,
                               ![c].source = "stripe"]
    /\ ready' = Append(ready, <<"trig", c>>)
    /\ UNCHANGED << current_interrupt, original_state, interrupt_task, task,
                    stop, dev >>
    /\ UNCHANGED notpay

TriggerInvoke(c) == TriggerInvokeFrom(c, Amounts)

\* line 30 up to the await of get_devices in _save_current_state (line 107)
TriggerBegin(c) ==
    /\ RunsCall("trig", c) /\ trig[c].pc = "start"
    /\ ready' = Tail(ready)
    /\ trig' = [trig EXCEPT ![c].pc = "save_devices"]
    /\ UNCHANGED << current_interrupt, original_state, interrupt_task, task,
                    stop, dev >>
    /\ UNCHANGED notpay

\* what _save_current_state leaves in self.original_state
SavedState(states) == Some([device_states |-> states])

\* lines 32-58, after _save_current_state has stored `saved`: cancel the
\* running task, select the pattern, record the session, create the task
TriggerFinish(c, saved) ==
    LET old == interrupt_task
        tk == IF old # None THEN task_cancel(task, Get(old)) ELSE task
        rq == IF old # None THEN cancel_wakeup(task, Tail(ready), Get(old))
              ELSE Tail(ready)
        pat == _get_celebration_pattern(trig[c].amount)
    IN /\ original_state' = saved
       /\ task' = [tk EXCEPT ![c] = create_task]
       /\ ready' = Append(rq, <<"task", c>>)
       /\ current_interrupt' =
             Some([type |-> "payment_celebration", amount |-> trig[c].amount,
                   source |-> trig[c].source, pattern |-> pat])
       /\ interrupt_task' = Some(c)
       /\ trig' = [trig EXCEPT
                     ![c].pc = "returned",
                     ![c].result = [status |-> "celebration_started",
                                    pattern |-> pat.name,
                                    duration |-> pat.duration,
                                    amount |-> trig[c].amount]]
       /\ UNCHANGED << stop, dev >>

\* resumes from get_devices in _save_current_state (line 107)
TriggerGotDevices(c) ==
    /\ RunsCall("trig", c) /\ trig[c].pc = "save_devices"
    /\ \E r \in {"raise", "empty", "dev"} :
         CASE r = "raise" -> TriggerFinish(c, None)
           [] r = "empty" -> TriggerFinish(c, SavedState(<< >>))
           [] r = "dev" ->
                /\ ready' = Tail(ready)
                /\ trig' = [trig EXCEPT ![c].pc = "save_state"]
                /\ UNCHANGED << current_interrupt, original_state,
                                interrupt_task, task, stop, dev >>
    /\ UNCHANGED notpay

\* resumes from get_device_state (line 113); the state read is the state
\* of the light when the response arrives
TriggerGotState(c) ==
    /\ RunsCall("trig", c) /\ trig[c].pc = "save_state"
    /\ \E r \in {"raise", "state"} :
         CASE r = "raise" -> TriggerFinish(c, None)
           [] r = "state" -> TriggerFinish(c, SavedState(<< Some(dev) >>))
    /\ UNCHANGED notpay

(* ------------------------- stop_current_interrupt ---------------------- *)

\* "is_active" of get_current_interrupt (line 221)
is_active == interrupt_task # None /\ ~Finished(task[Get(interrupt_task)])

\* get_current_interrupt: None, or the record with is_active added
\* (time_elapsed is left out: the model has no wall clock)
get_current_interrupt ==
    IF current_interrupt = None THEN None
    ELSE Some([type |-> Get(current_interrupt).type,
               amount |-> Get(current_interrupt).amount,
               source |-> Get(current_interrupt).source,
               pattern |-> Get(current_interrupt).pattern,
               is_active |-> is_active])

\* GET /payment/interrupt/status: "interrupt_active"
interrupt_active == get_current_interrupt # None

\* the operator asks to stop; a second request follows the answer to the
\* first
StopInvoke(s) ==
    /\ stop[s].pc = "idle"
    /\ IF s = 1 THEN TRUE ELSE stop[s - 1].pc = "returned"
    /\ stop' = [stop EXCEPT ![s].pc = "start"]
    /\ ready' = Append(ready, <<"stop", s>>)
    /\ UNCHANGED << current_interrupt, original_state, interrupt_task, task,
                    trig, dev >>
    /\ UNCHANGED notpay

\* lines 226-232 up to the await inside _restore_original_state
StopBegin(s) ==
    /\ RunsCall("stop", s) /\ stop[s].pc = "start"
    /\ IF interrupt_task # None
       THEN /\ task' = task_cancel(task, Get(interrupt_task))
            /\ ready' = cancel_wakeup(task, Tail(ready), Get(interrupt_task))
            /\ _restore_original_state
            /\ IF RestoreTarget # None
               THEN /\ stop' = [stop EXCEPT ![s].pc = "restoring"]
                    /\ UNCHANGED current_interrupt
               ELSE /\ stop' = [stop EXCEPT ![s].pc = "returned",
                                            ![s].result = "interrupt_stopped"]
                    /\ current_interrupt' = None
       ELSE /\ stop' = [stop EXCEPT ![s].pc = "returned",
                                    ![s].result = "no_interrupt_active"]
            /\ ready' = Tail(ready)
            /\ UNCHANGED << current_interrupt, task, dev >>
    /\ UNCHANGED << original_state, interrupt_task, trig >>
    /\ UNCHANGED notpay

\* resumes from _restore_original_state (line 228), lines 229-230
StopRestored(s) ==
    /\ RunsCall("stop", s) /\ stop[s].pc = "restoring"
    /\ ready' = Tail(ready)
    /\ current_interrupt' = None
    /\ stop' = [stop EXCEPT ![s].pc = "returned",
                            ![s].result = "interrupt_stopped"]
    /\ UNCHANGED << original_state, interrupt_task, task, trig, dev >>
    /\ UNCHANGED notpay

(* ------------------------------ event loop ----------------------------- *)

\* the awaited operation of a suspended coroutine completes: the coroutine
\* becomes ready
IOComplete(p) ==
    /\ ~InSeq(p, ready)
    /\ \/ p[1] = "task" /\ Waiting(task[p[2]])
       \/ p[1] = "trig" /\ trig[p[2]].pc \in {"save_devices", "save_state"}
       \/ p[1] = "stop" /\ stop[p[2]].pc = "restoring"
    /\ ready' = Append(ready, p)
    /\ UNCHANGED << current_interrupt, original_state, interrupt_task, task,
                    trig, stop, dev >>
    /\ UNCHANGED notpay

Procs == ({"task", "trig"} \X Calls) \cup ({"stop"} \X Stops)

Next ==
    \/ \E c \in Calls : TriggerInvoke(c)
    \/ \E c \in Calls : TriggerBegin(c)
    \/ \E c \in Calls : TriggerGotDevices(c)
    \/ \E c \in Calls : TriggerGotState(c)
    \/ \E s \in Stops : StopInvoke(s)
    \/ \E s \in Stops : StopBegin(s)
    \/ \E s \in Stops : StopRestored(s)
    \/ \E t \in Calls : TaskStart(t)
    \/ \E t \in Calls : TaskGotDevices(t)
    \/ \E t \in Calls : TaskControlled(t)
    \/ \E t \in Calls : TaskSlept(t)
    \/ \E t \in Calls : TaskRestored(t)
    \/ \E p \in Procs : IOComplete(p)

\* the event loop runs the coroutine at the head of the ready queue
LoopStep ==
    \/ \E c \in Calls : TriggerBegin(c) \/ TriggerGotDevices(c) \/ TriggerGotState(c)
    \/ \E s \in Stops : StopBegin(s) \/ StopRestored(s)
    \/ \E t \in Calls : \/ TaskStart(t) \/ TaskGotDevices(t) \/ TaskControlled(t)
                         \/ TaskSlept(t) \/ TaskRestored(t)

\* the loop keeps running ready coroutines, and every awaited operation
\* ends (a sleep elapses, an HTTP call answers or times out)
Fairness ==
    /\ WF_vars(LoopStep)
    /\ \A p \in Procs : WF_vars(IOComplete(p))

\* the environment of the fair specification: payments of one amount and
\* one stop request
LiveInvoke ==
    \/ \E c \in Calls : TriggerInvokeFrom(c, {2000})
    \/ StopInvoke(1)

LiveNext ==
    \/ LiveInvoke
    \/ LoopStep
    \/ \E p \in Procs : IOComplete(p)

(* ---------------- the pattern selector on its own ---------------------- *)

\* largest amount (cents) of the range the selector is run on
MaxSelectAmount == 10100

SelectAmounts == 0..MaxSelectAmount \cup {50000}

\* one payment of any amount of the range, followed up to the return of
\* trigger_payment_celebration
SelectInvoke == TriggerInvokeFrom(1, SelectAmounts)

NextSelect ==
    \/ SelectInvoke
    \/ TriggerBegin(1)
    \/ TriggerGotDevices(1)
    \/ TriggerGotState(1)
    \/ IOComplete(<<"trig", 1>>)

(* ======================================================================= *)
(*                 the YouTube monitor (src/app/youtube.py)                *)
(* ======================================================================= *)

(* ----------------------------- bounds --------------------------------- *)

\* subscriber counts are taken this far around every threshold
MaxSpread == 1
\* the count of should_celebrate reports is followed up to this number
MaxFires == 2

(* ----------------------- check_subscriber_milestone -------------------- *)

\* the threshold table, highest first: (threshold, celebration amount in $)
milestones ==
    << << 1000000, 500 >>, << 500000, 200 >>, << 100000, 100 >>,
       << 50000, 75 >>, << 10000, 50 >>, << 5000, 25 >>, << 1000, 15 >>,
       << 500, 10 >>, << 100, 5 >> >>

\* a test that looks at the current count alone (level-triggered)
crosses_level(threshold, previous_count, current_count) ==
    current_count >= threshold

\* current_count >= threshold and previous_count < threshold (line 148)
crosses(threshold, previous_count, current_count) ==
    current_count >= threshold /\ previous_count < threshold

\* the for loop with its break: the index of the first row of the table that
\* is crossed, 0 when none is
RECURSIVE first_crossed(_, _, _)
first_crossed(i, previous_count, current_count) ==
    IF i > Len(milestones) THEN 0
    ELSE IF crosses(milestones[i][1], previous_count, current_count) THEN i
    ELSE first_crossed(i + 1, previous_count, current_count)

\* the dictionary check_subscriber_milestone returns for a fetched count
\* (lines 124-173; the timestamp is left out)
milestone_result(previous_count, current_count) ==
    LET i == first_crossed(1, previous_count, current_count)
        named_reached == IF i = 0 THEN None ELSE Some(milestones[i][1])
        named_amount == IF i = 0 THEN 0 ELSE milestones[i][2]
        current_thousands == current_count \div 1000
        previous_thousands == previous_count \div 1000
        every_1000 == /\ current_count >= 10000
                      /\ previous_count < current_count
                      /\ current_thousands > previous_thousands
        milestone_reached == IF every_1000
                             THEN Some(current_thousands * 1000)
                             ELSE named_reached
    IN [error |-> FALSE,
        current_subscribers |-> current_count,
        previous_subscribers |-> previous_count,
        subscriber_gain |-> current_count - previous_count,
        milestone_reached |-> milestone_reached,
        celebration_amount |-> IF every_1000 THEN 50 ELSE named_amount,
        should_celebrate |-> milestone_reached # None]

\* the dictionary get_channel_stats returns when the fetch fails, returned
\* as it is by the checks (lines 121-122)
error_result ==
    [error |-> TRUE, current_subscribers |-> 0, previous_subscribers |-> 0,
     subscriber_gain |-> 0, milestone_reached |-> None,
     celebration_amount |-> 0, should_celebrate |-> FALSE]

\* get_channel_stats: the count of the channel, or an error dictionary
FetchOutcomes == {"ok", "error"}

\* check_subscriber_milestone: reads last_subscriber_count, writes nothing
check_subscriber_milestone(fetch) ==
    IF fetch = "error" THEN error_result
    ELSE milestone_result(last_subscriber_count, channel)

\* the keyword names of trigger_payment_celebration's parameters
TriggerParameters == {"payment_amount", "payment_source"}

\* a call of trigger_payment_celebration by keyword: Python raises a
\* TypeError, before the body runs, for a keyword that is no parameter
bind_arguments(keywords) ==
    IF keywords \subseteq TriggerParameters THEN "bound" ELSE "TypeError"

\* what a caller is left with after the check: the result, who asked, and
\* how its call of the trigger ended
Checked(r, caller) ==
    Some([result |-> r, caller |-> caller,
          trigger |-> IF r.should_celebrate
                      THEN bind_arguments({"amount", "payment_type"})
                      ELSE "not called"])

Fired(r) ==
    IF r.should_celebrate /\ fires < MaxFires THEN fires + 1 ELSE fires

(* ------------------------ check_for_new_subscribers -------------------- *)

\* Python's max
max(a, b) == IF a >= b THEN a ELSE b

\* new_subscribers = max(0, current_count - previous_count) (line 105)
new_subscribers(current_count, previous_count) ==
    max(0, current_count - previous_count)

\* the dictionary check_for_new_subscribers returns (lines 93-115; the
\* timestamp is left out): the error dictionary of the fetch as it is, or
\* the counts
check_for_new_subscribers(fetch) ==
    IF fetch = "error"
    THEN [error |-> TRUE, current_subscribers |-> 0,
          previous_subscribers |-> 0, new_subscribers |-> 0,
          has_new_subscribers |-> FALSE]
    ELSE LET current_count == channel
             previous_count == last_subscriber_count
         IN [error |-> FALSE,
             current_subscribers |-> current_count,
             previous_subscribers |-> previous_count,
             new_subscribers |-> new_subscribers(current_count, previous_count),
             has_new_subscribers |->
                 new_subscribers(current_count, previous_count) > 0]

\* a check that stores the count of a failed fetch as well
stored_count_always(fetch) == IF fetch = "error" THEN 0 ELSE channel

\* self.last_subscriber_count after the call: the fetched count (line 102),
\* the old value when the fetch failed (lines 95-96)
stored_count(fetch) ==
    IF fetch = "error" THEN last_subscriber_count ELSE channel

\* what the caller holds when check_for_new_subscribers has returned
Counted(fetch, caller) ==
    Some([result |-> check_for_new_subscribers(fetch), caller |-> caller])

(* ------------------------------ the counts ----------------------------- *)

Thresholds == { milestones[i][1] : i \in 1..Len(milestones) }

\* the counts the channel takes: around every threshold of the table and
\* around two further thousands, and the counts of the examples
MonitorCounts ==
    {0, 950, 1050, 10500, 11500}
      \cup { T + d : T \in Thresholds \cup {11000, 12000},
                     d \in (0 - MaxSpread)..MaxSpread }

(* ------------------------------- actions ------------------------------- *)

MonitorInit ==
    /\ last_subscriber_count = 0
    /\ monitoring_active = FALSE
    /\ poll = "idle"
    /\ milestone_check = None
    /\ fires = 0
    /\ subscriber_check = None

\* the channel gains or loses subscribers
SubscribersChange ==
    /\ \E n \in MonitorCounts \ {channel} : channel' = n
    /\ fires' = 0
    /\ milestone_check' = None
    /\ subscriber_check' = None
    /\ UNCHANGED << last_subscriber_count, monitoring_active, poll >>
    /\ UNCHANGED << payvars, govvars, hook, cronvars, thread >>

\* start_monitoring: the flag is set before the initial count is fetched
start_monitoring ==
    /\ monitoring_active' = TRUE
    /\ \E fetch \in FetchOutcomes :
          last_subscriber_count' =
              IF fetch = "ok" THEN channel ELSE last_subscriber_count
    /\ milestone_check' = None
    /\ subscriber_check' = None
    /\ UNCHANGED << channel, poll, fires >>
    /\ UNCHANGED << payvars, govvars, hook, cronvars, thread >>

stop_monitoring ==
    /\ monitoring_active
    /\ monitoring_active' = FALSE
    /\ milestone_check' = None
    /\ subscriber_check' = None
    /\ UNCHANGED << last_subscriber_count, channel, poll, fires >>
    /\ UNCHANGED << payvars, govvars, hook, cronvars, thread >>

\* check_for_new_subscribers in the background task (lines 233-263): a
\* fetch that succeeds stores the count; the red flashes that follow
\* suspend the task before the milestone check
PollSubscribers ==
    /\ poll = "idle" /\ monitoring_active
    /\ \E fetch \in FetchOutcomes :
          /\ last_subscriber_count' = stored_count(fetch)
          /\ subscriber_check' = Counted(fetch, "task")
          /\ poll' = IF fetch = "ok" THEN "milestone" ELSE poll
    /\ milestone_check' = None
    /\ UNCHANGED << monitoring_active, channel, fires >>
    /\ UNCHANGED << payvars, govvars, hook, cronvars, thread >>

\* the milestone check of the background task (lines 265-292)
PollMilestone ==
    /\ poll = "milestone"
    /\ poll' = "idle"
    /\ \E fetch \in FetchOutcomes :
          LET r == check_subscriber_milestone(fetch)
          IN /\ milestone_check' = Checked(r, "task")
             /\ fires' = Fired(r)
    /\ subscriber_check' = None
    /\ UNCHANGED << last_subscriber_count, monitoring_active, channel >>
    /\ UNCHANGED << payvars, govvars, hook, cronvars, thread >>

\* POST /youtube/check-milestone (main.py)
ManualCheck ==
    /\ \E fetch \in FetchOutcomes :
          LET r == check_subscriber_milestone(fetch)
          IN /\ milestone_check' = Checked(r, "endpoint")
             /\ fires' = Fired(r)
    /\ subscriber_check' = None
    /\ UNCHANGED << last_subscriber_count, monitoring_active, channel, poll >>
    /\ UNCHANGED << payvars, govvars, hook, cronvars, thread >>

\* POST /youtube/check-new-subscribers (main.py, 1138-1158)
CheckNewSubscribers ==
    /\ \E fetch \in FetchOutcomes :
          /\ last_subscriber_count' = stored_count(fetch)
          /\ subscriber_check' = Counted(fetch, "endpoint")
    /\ milestone_check' = None
    /\ UNCHANGED << monitoring_active, channel, poll, fires >>
    /\ UNCHANGED << payvars, govvars, hook, cronvars, thread >>

(* ======================================================================= *)
(*                the rate limiter (src/app/govee.py, 14-41)               *)
(* ======================================================================= *)

(* ----------------------------- bounds --------------------------------- *)

\* the clock is advanced by the environment up to this second
MaxClock == 6
\* number of wait_if_needed calls that are followed
MaxCalls == 15
\* the limiters that are constructed besides the default one:
\* max_requests in 1..MaxN, time_window in 1..MaxW
MaxN == 3
MaxW == 3

\* RateLimiter.__init__'s defaults
DefaultMaxRequests == 10
DefaultTimeWindow == 60

RateLimiter(max_requests, time_window) ==
    [max_requests |-> max_requests, time_window |-> time_window,
     requests |-> << >>]

\* rate_limiter = RateLimiter()
rate_limiter == RateLimiter(DefaultMaxRequests, DefaultTimeWindow)

\* the list comprehension of lines 24-25 and 35-36
recent(requests, t, time_window) ==
    SelectSeq(requests, LAMBDA req_time : t - req_time < time_window)

\* a limiter that lets one request more through
at_limit_strict(requests, max_requests) == Len(requests) > max_requests

\* len(self.requests) >= self.max_requests (line 27)
at_limit(requests, max_requests) == Len(requests) >= max_requests

\* wait_if_needed at time t: the limiter and the clock when it returns.
\* time.sleep blocks the thread, so the call is one step of the process.
wait_if_needed(lm, t) ==
    LET kept == recent(lm.requests, t, lm.time_window)
        wait_time == IF at_limit(kept, lm.max_requests)
                     THEN lm.time_window - (t - kept[1])
                     ELSE 0
        t2 == IF wait_time > 0 THEN t + wait_time ELSE t
        kept2 == IF wait_time > 0 THEN recent(kept, t2, lm.time_window)
                 ELSE kept
    IN [limiter |-> [lm EXCEPT !.requests = Append(kept2, t2)], now |-> t2]

\* the limiters of the limiter's own specification
LimiterConfigs ==
    { RateLimiter(n, w) : n \in 1..MaxN, w \in 1..MaxW } \cup {rate_limiter}

\* time passes
Tick ==
    /\ now < MaxClock
    /\ now' = now + 1
    /\ UNCHANGED << limiter, admitted, creds, op >>
    /\ UNCHANGED << payvars, monvars, hook, cronvars, thread >>

\* one call of wait_if_needed
LimiterCall ==
    /\ Len(admitted) < MaxCalls
    /\ LET w == wait_if_needed(limiter, now)
       IN /\ limiter' = w.limiter
          /\ now' = w.now
          /\ admitted' = Append(admitted, w.now)
    /\ UNCHANGED << creds, op >>
    /\ UNCHANGED << payvars, monvars, hook, cronvars, thread >>

(* ======================================================================= *)
(*     the device client (src/app/govee.py) and main.py's own requests     *)
(* ======================================================================= *)

\* number of device operations that are followed
MaxOps == 3

\* what the environment holds of GOVEE_API_KEY, GOVEE_DEVICE_ID, GOVEE_MODEL
CredSets == { {}, {"api_key"}, {"api_key", "device_id", "model"} }

\* the ways an HTTP request ends: a status 200 whose body carries code 200,
\* a status 200 whose body carries an error code, another status, a
\* timeout, a transport error
Responses == {"200/200", "200/error", "500", "timeout", "transport"}

\* requests raises for a timeout and for a transport error
Raises(resp) == resp \in {"timeout", "transport"}
status_code_200(resp) == resp \in {"200/200", "200/error"}

\* an HTTP request an operation has sent: its kind ("control" changes the
\* device), the command it carries, and whether wait_if_needed was called
\* before it
Http(kind, cmd, limited) == [kind |-> kind, cmd |-> cmd, limited |-> limited]

\* what a returned operation leaves: its value (or the exception raised),
\* the requests it has sent, the limiter and the clock
Outcome(value, raised, http, lm, t) ==
    [value |-> value, raised |-> raised, http |-> http, limiter |-> lm,
     now |-> t]

\* an operation that returns before it reaches the limiter
Early(value, raised) == Outcome(value, raised, << >>, limiter, now)

\* a client that tries a failed request once more
send_control_retry(command, resp) ==
    IF Raises(resp) \/ ~status_code_200(resp)
    THEN << Http("control", command, TRUE), Http("control", command, TRUE) >>
    ELSE << Http("control", command, TRUE) >>

\* the one requests.put of test_device_connection (line 124)
send_control(command, resp) == << Http("control", command, TRUE) >>

\* test_device_connection (lines 91-136)
test_device_connection(command, value, resp) ==
    IF ~({"api_key", "device_id", "model"} \subseteq creds)
    THEN Early("False", "none")
    ELSE LET w == wait_if_needed(limiter, now)
         IN Outcome(IF ~Raises(resp) /\ status_code_200(resp)
                    THEN "True" ELSE "False",
                    "none", send_control(command, resp), w.limiter, w.now)

\* get_devices (lines 56-89)
get_devices(resp) ==
    IF "api_key" \notin creds
    THEN Early("[]", "none")
    ELSE LET w == wait_if_needed(limiter, now)
         IN Outcome(IF ~Raises(resp) /\ status_code_200(resp)
                    THEN "devices" ELSE "[]",
                    "none", << Http("devices", "list", TRUE) >>,
                    w.limiter, w.now)

\* set_color (lines 146-152)
set_color(r, g, b, resp) == test_device_connection("color", << r, g, b >>, resp)

\* a set_brightness without its range check
set_brightness_unchecked(brightness, resp) ==
    test_device_connection("brightness", brightness, resp)

\* set_brightness (lines 154-163)
set_brightness(brightness, resp) ==
    IF ~(0 <= brightness /\ brightness <= 100)
    THEN Early("False", "none")
    ELSE test_device_connection("brightness", brightness, resp)

\* power on and off: test_device_connection("turn", "on" | "off")
turn(value, resp) == test_device_connection("turn", value, resp)

\* DIY_SCENES of main.py
DIY_SCENES == {"money", "youtube", "goal"}

\* trigger_diy_scene (main.py, 182-234) after get_current_light_state: one
\* POST of the scene, sent without the rate limiter; the restore of the
\* previous state is scheduled when the scene was accepted
trigger_diy_scene(scene_name, resp) ==
    IF scene_name \notin DIY_SCENES
    THEN Early("none", "HTTPException 400")
    ELSE Outcome(IF resp = "200/200" THEN "success" ELSE "none",
                 IF resp = "200/200" THEN "none" ELSE "HTTPException 500",
                 << Http("state", "state", FALSE),
                    Http("control", "diyScene", FALSE) >>,
                 limiter, now)

\* the state get_current_light_state has returned: None, or the values of
\* the capabilities (None for a capability the payload lacks)
LightState(power, brightness, color) ==
    Some([power |-> power, brightness |-> brightness, color |-> color])

PreviousStates ==
    {None} \cup
    { LightState(p, b, c) : p \in {None, Some(0), Some(1)},
                            b \in {None, Some(0), Some(50)},
                            c \in {None, Some(0), Some(255), Some(16777215)} }

\* the requests of restore_light_state (main.py, 68-180), each sent
\* without the rate limiter and with its failure ignored
restore_light_state(previous_state) ==
    IF previous_state = None THEN Early("None", "none")
    ELSE LET st == Get(previous_state)
             clear == << Http("control", "diyScene", FALSE) >>
             power == IF st.power = Some(1)
                      THEN << Http("control", "powerSwitch", FALSE) >>
                      ELSE << >>
             bright == IF st.brightness # None /\ Get(st.brightness) > 0
                       THEN << Http("control", "brightness", FALSE) >>
                       ELSE << >>
             color == IF /\ st.color # None
                         /\ Get(st.color) # 0
                         /\ Get(st.color) # 16777215
                      THEN << Http("control", "colorRgb", FALSE) >>
                      ELSE << >>
         IN Outcome("None", "none", clear \o power \o bright \o color,
                    limiter, now)

\* the arguments of the operations
BrightnessInputs == {0 - 1, 0, 50, 100, 101}
ColorInputs == { << r, g, 0 >> : r \in {0 - 1, 0, 255, 256}, g \in {0, 300} }

\* the operation that has just returned
Returned(n, name, arg, resp, out) ==
    [n |-> n, name |-> name, arg |-> arg, resp |-> resp, value |-> out.value,
     raised |-> out.raised, http |-> out.http]

NoOp ==
    [n |-> 0, name |-> "none", arg |-> 0, resp |-> "none", value |-> "none",
     raised |-> "none", http |-> << >>]

\* the operation leaves the limiter and the clock as `out` says
Return(name, arg, resp, out) ==
    /\ op' = Returned(op.n + 1, name, arg, resp, out)
    /\ limiter' = out.limiter
    /\ now' = out.now
    /\ admitted' = IF out.limiter # limiter
                   THEN Append(admitted, out.now) ELSE admitted
    /\ UNCHANGED creds
    /\ UNCHANGED << payvars, monvars, hook, cronvars, thread >>

CallSetColor ==
    /\ op.n < MaxOps
    /\ \E c \in ColorInputs, resp \in Responses :
          Return("set_color", c, resp, set_color(c[1], c[2], c[3], resp))

CallSetBrightness ==
    /\ op.n < MaxOps
    /\ \E b \in BrightnessInputs, resp \in Responses :
          Return("set_brightness", b, resp, set_brightness(b, resp))

CallTurn ==
    /\ op.n < MaxOps
    /\ \E v \in {"on", "off"}, resp \in Responses :
          Return("turn", v, resp, turn(v, resp))

CallGetDevices ==
    /\ op.n < MaxOps
    /\ \E resp \in Responses :
          Return("get_devices", 0, resp, get_devices(resp))

CallTriggerDiyScene ==
    /\ op.n < MaxOps
    /\ \E scene \in {"money", "birthday"}, resp \in Responses :
          Return("trigger_diy_scene", scene, resp,
                 trigger_diy_scene(scene, resp))

\* restore_after_delay runs restore_light_state on a state read earlier
CallRestoreLightState ==
    /\ op.n < MaxOps
    /\ \E prev \in PreviousStates :
          Return("restore_light_state", prev, "none",
                 restore_light_state(prev))

(* ======================================================================= *)
(*              the /stripe webhook (src/app/main.py, 864-905)             *)
(* ======================================================================= *)

\* the event types that trigger a celebration (line 880)
PaymentTypes ==
    {"payment_intent.succeeded", "checkout.session.completed",
     "invoice.payment_succeeded"}

\* the field of event["data"]["object"] that is read for a type
\* (lines 884-889)
AmountField(type) ==
    CASE type = "payment_intent.succeeded" -> "amount"
      [] type = "checkout.session.completed" -> "amount_total"
      [] type = "invoice.payment_succeeded" -> "amount_paid"
      [] OTHER -> "none"

\* what stripe.Webhook.construct_event makes of a request: a ValueError,
\* a SignatureVerificationError, or the event (its type, the amount field
\* its object carries and the amount in cents)
Event(type, field, cents) ==
    [verified |-> "event", type |-> type, field |-> field, cents |-> cents]

Rejected(error) ==
    [verified |-> error, type |-> "", field |-> "none", cents |-> 0]

WebhookRequests ==
    { Rejected("ValueError"), Rejected("SignatureVerificationError"),
      Event("customer.created", "none", 0),
      Event("checkout.session.completed", "amount", 2000) }
      \cup { Event(ty, AmountField(ty), a) : ty \in PaymentTypes, a \in Amounts }

\* the celebration is queued: the type is a payment type and its amount
\* field is read without an error (lines 880-898)
Queues(ev) ==
    /\ ev.verified = "event"
    /\ ev.type \in PaymentTypes
    /\ ev.field = AmountField(ev.type)

\* a handler without the try/except of lines 881-903
hook_response_unguarded(ev) ==
    IF ev.verified = "ValueError"
    THEN [status_code |-> 400, body |-> "Invalid payload"]
    ELSE IF ev.verified = "SignatureVerificationError"
    THEN [status_code |-> 400, body |-> "Invalid signature"]
    ELSE IF ev.type \in PaymentTypes /\ ~Queues(ev)
    THEN [status_code |-> 500, body |-> "KeyError"]
    ELSE [status_code |-> 200, body |-> "success"]

\* the response of the handler (lines 874-877, 905)
hook_response(ev) ==
    IF ev.verified = "ValueError"
    THEN [status_code |-> 400, body |-> "Invalid payload"]
    ELSE IF ev.verified = "SignatureVerificationError"
    THEN [status_code |-> 400, body |-> "Invalid signature"]
    ELSE [status_code |-> 200, body |-> "success"]

HookInit ==
    hook = [h \in Calls |-> [pc |-> "idle", event |-> Rejected("none"),
                             response |-> [status_code |-> 0, body |-> ""]]]

\* stripe_webhook: the response is made, and the celebration is added to
\* the background tasks, which run once the response has been sent;
\* payment_amount is the amount in cents divided by 100, kept in cents here
stripe_webhook(h) ==
    /\ hook[h].pc = "idle"
    /\ IF h = 1 THEN TRUE ELSE hook[h - 1].pc # "idle"
    /\ \E ev \in WebhookRequests :
          /\ hook' = [hook EXCEPT ![h] = [pc |-> "responded", event |-> ev,
                                          response |-> hook_response(ev)]]
          /\ IF Queues(ev)
             THEN /\ trig' = [trig EXCEPT ![h].pc = "start",
                                          ![h].amount = ev.cents,
                                          ![h].source = "stripe"]
                  /\ ready' = Append(ready, <<"trig", h>>)
             ELSE UNCHANGED << trig, ready >>
    /\ UNCHANGED << current_interrupt, original_state, interrupt_task, task,
                    stop, dev >>
    /\ UNCHANGED << monvars, govvars, cronvars, thread >>

(* ======================================================================= *)
(*   the /cron poller (src/app/main.py, 907-938; oauth_integrations.py)    *)
(* ======================================================================= *)

\* number of invocations of /cron that are followed
MaxCron == 3

\* YouTubeService.get_subscriber_count: the count, None when the request
\* fails or the channel list is empty
get_subscriber_count(fetch) == IF fetch = "ok" THEN Some(channel) ELSE None

\* YouTubeService.check_new_subscriber: the count when it is non-zero and
\* above last_count, else None
check_new_subscriber(fetch, last_count) ==
    LET current_count == get_subscriber_count(fetch)
    IN IF /\ current_count # None
          /\ Get(current_count) # 0
          /\ Get(current_count) > last_count
       THEN current_count ELSE None

\* GoogleCalendarService.check_upcoming_events: whether the primary
\* calendar lists an event that starts within 10 minutes; False when the
\* request fails
check_upcoming_events(fetch) == IF fetch = "ok" THEN upcoming ELSE FALSE

\* no invocation yet
NoCron == [n |-> 0, queued |-> << >>, reads |-> "none"]

\* cron_job: the scenes it adds to the background tasks, in order, and the
\* count it stores (lines 913-929)
cron_job ==
    /\ cron.n < MaxCron
    /\ \E yt \in FetchOutcomes, cal \in FetchOutcomes :
          LET last_count == user_settings.last_subscriber_count
              new_count == IF google_tokens
                           THEN check_new_subscriber(yt, last_count)
                           ELSE None
              found == new_count # None /\ Get(new_count) # 0
              has_upcoming == google_tokens /\ check_upcoming_events(cal)
          IN /\ user_settings' =
                   IF found
                   THEN [user_settings EXCEPT
                           !.last_subscriber_count = Get(new_count)]
                   ELSE user_settings
             /\ cron' = [n |-> cron.n + 1,
                         queued |-> (IF found THEN << "youtube" >> ELSE << >>)
                                      \o (IF has_upcoming THEN << "money" >>
                                          ELSE << >>),
                         reads |-> IF yt = "ok" /\ cal = "ok" THEN "ok"
                                   ELSE "error"]
    /\ UNCHANGED << google_tokens, upcoming >>
    /\ UNCHANGED << payvars, monvars, govvars, hook, thread >>

(* ======================================================================= *)
(*          the thread of the event loop and the limiter's sleep           *)
(* ======================================================================= *)

\* an endpoint's coroutine calls test_device_connection, a coroutine
\* function without an await before its request (govee.py, 91-124): it runs
\* on the thread of the event loop, and so does the time.sleep(wait_time)
\* of wait_if_needed (line 32), which returns when wait_time has passed
DeviceCall ==
    /\ thread = None
    /\ Len(admitted) < MaxCalls
    /\ LET w == wait_if_needed(limiter, now)
       IN IF w.now > now
          THEN /\ thread' = Some(w.now)
               /\ UNCHANGED << limiter, now, admitted >>
          ELSE /\ thread' = None
               /\ limiter' = w.limiter
               /\ now' = w.now
               /\ admitted' = Append(admitted, w.now)
    /\ UNCHANGED << creds, op >>
    /\ UNCHANGED << payvars, monvars, hook, cronvars >>

\* time.sleep returns: lines 34-38 of wait_if_needed, then the request
SleepReturns ==
    /\ thread # None
    /\ LET w == wait_if_needed(limiter, now)
       IN /\ limiter' = w.limiter
          /\ now' = w.now
          /\ admitted' = Append(admitted, w.now)
    /\ thread' = None
    /\ UNCHANGED << creds, op >>
    /\ UNCHANGED << payvars, monvars, hook, cronvars >>

\* the event loop runs callbacks and coroutines on its one thread: none of
\* them runs while the thread is inside a blocking call
OnThread == thread = None

(* ======================================================================= *)
(*                            the specifications                           *)
(* ======================================================================= *)

ClientInit ==
    /\ limiter = rate_limiter
    /\ now = 0
    /\ admitted = << >>
    /\ op = NoOp

AllCredentials == {"api_key", "device_id", "model"}

\* the parts a specification does not exercise stay as they are constructed
MonitorIdle == MonitorInit /\ channel = 0
ClientIdle == ClientInit /\ creds = AllCredentials /\ thread = None
PaymentIdle == Init
CronIdle ==
    /\ user_settings = [last_subscriber_count |-> 0]
    /\ google_tokens = FALSE
    /\ upcoming = FALSE
    /\ cron = NoCron

\* the process as it is constructed, before any payment
InitPayment == Init /\ MonitorIdle /\ ClientIdle /\ HookInit /\ CronIdle

\* the payment interrupt manager under triggers and stops
Spec == InitPayment /\ [][Next]_vars

LiveSpec == InitPayment /\ [][LiveNext]_vars /\ Fairness

SpecSelect == InitPayment /\ [][NextSelect]_vars

\* the YouTube monitor: the background task, the endpoint and the channel
NextMonitor ==
    \/ SubscribersChange
    \/ start_monitoring
    \/ stop_monitoring
    \/ PollSubscribers
    \/ PollMilestone
    \/ ManualCheck
    \/ CheckNewSubscribers

\* the monitor as it is constructed, for a channel of any count
InitMonitor ==
    /\ MonitorInit /\ channel \in MonitorCounts
    /\ PaymentIdle /\ ClientIdle /\ HookInit /\ CronIdle

SpecMonitor == InitMonitor /\ [][NextMonitor]_vars

\* a rate limiter under calls and the passing of time
NextLimiter ==
    \/ Tick
    \/ LimiterCall

\* a limiter as it is constructed, of any of the configurations
InitLimiter ==
    /\ limiter \in LimiterConfigs
    /\ now = 0 /\ admitted = << >> /\ op = NoOp /\ creds = AllCredentials
    /\ thread = None
    /\ PaymentIdle /\ MonitorIdle /\ HookInit /\ CronIdle

SpecLimiter == InitLimiter /\ [][NextLimiter]_vars

\* the device operations, with the process-wide limiter
NextClient ==
    \/ Tick
    \/ CallSetColor
    \/ CallSetBrightness
    \/ CallTurn
    \/ CallGetDevices
    \/ CallTriggerDiyScene
    \/ CallRestoreLightState

\* the client before any operation, under any setting of the credentials
InitClient ==
    /\ ClientInit /\ creds \in CredSets /\ thread = None
    /\ PaymentIdle /\ MonitorIdle /\ HookInit /\ CronIdle

SpecClient == InitClient /\ [][NextClient]_vars

\* payments that arrive through the webhook
NextWebhook ==
    \/ \E h \in Calls : stripe_webhook(h)
    \/ \E c \in Calls : TriggerBegin(c)
    \/ \E c \in Calls : TriggerGotDevices(c)
    \/ \E c \in Calls : TriggerGotState(c)
    \/ \E t \in Calls : TaskStart(t)
    \/ \E t \in Calls : TaskGotDevices(t)
    \/ \E t \in Calls : TaskControlled(t)
    \/ \E t \in Calls : TaskSlept(t)
    \/ \E t \in Calls : TaskRestored(t)
    \/ \E p \in {"task", "trig"} \X Calls : IOComplete(p)

SpecWebhook == InitPayment /\ [][NextWebhook]_vars

\* the stored counts a user can have when /cron is first invoked
StoredCounts == {0, 1000}

\* the /cron poller against an external state that does not change: any
\* subscriber count, with or without an upcoming calendar event
NextCron == cron_job

InitCron ==
    /\ MonitorInit /\ channel \in MonitorCounts
    /\ user_settings \in [last_subscriber_count : StoredCounts]
    /\ google_tokens \in BOOLEAN
    /\ upcoming \in BOOLEAN
    /\ cron = NoCron
    /\ PaymentIdle /\ ClientIdle /\ HookInit

SpecCron == InitCron /\ [][NextCron]_vars

\* one payment and one stop request on the event loop, with the device
\* calls of the endpoints on the same thread
NextBlocking ==
    \/ OnThread /\ TriggerInvokeFrom(1, {500})
    \/ OnThread /\ StopInvoke(1)
    \/ OnThread /\ LoopStep
    \/ \E p \in Procs : OnThread /\ IOComplete(p)
    \/ DeviceCall
    \/ SleepReturns

SpecBlocking == InitPayment /\ [][NextBlocking]_vars

(* ======================================================================= *)
(*                                 claims                                  *)
(* ======================================================================= *)

\* the task t sends the control request of a step of its pattern
IssuesStep(t) ==
    task[t].pc \in {"get_devices", "sleep"} /\ task'[t].pc = "control"

\* the task t sends the control request of a restore
TaskIssuesRestore(t) ==
    /\ task'[t].pc = "restore"
    /\ task[t].pc # "restore" \/ task[t].phase # task'[t].phase

\* the stop call s sends the control request of a restore
StopIssuesRestore(s) == stop[s].pc = "start" /\ stop'[s].pc = "restoring"

\* the coroutine of the task has run at least once
HasStarted(tk) == tk.pc \notin {"none", "created", "dropped"}

\* no celebration exists and no trigger is under way
Idle ==
    /\ \A t \in Calls : task[t].pc \in {"none", "done", "dropped"}
    /\ \A c \in Calls : trig[c].pc \in {"idle", "returned"}

\* the tier table of the specification (amounts in cents): name, total
\* duration, holds of the steps
TierOf(a) ==
    IF a >= 10000 THEN "Premium Celebration"
    ELSE IF a >= 5000 THEN "Major Sale"
    ELSE IF a >= 2000 THEN "Standard Celebration"
    ELSE "Mini Celebration"

TierDuration(name) ==
    CASE name = "Premium Celebration" -> 30
      [] name = "Major Sale" -> 20
      [] name = "Standard Celebration" -> 15
      [] name = "Mini Celebration" -> 10

(* C1: last-trigger-wins.  For a trigger A called before a trigger B, once *)
(* the celebration task of B has started to run, no further step of A's    *)
(* pattern is sent to the light.                                           *)
C1_LastTriggerWins ==
    [][\A a, b \in Calls :
          (a < b /\ HasStarted(task[b])) => ~IssuesStep(a)]_vars

(* C2: at most one celebration task is live (started and not finished, its *)
(* restore phase included) in every reachable state.                       *)
C2_OneLiveRun == Cardinality({t \in Calls : Waiting(task[t])}) <= 1

(* C3: the saved state of a session never records a colour or brightness   *)
(* that a celebration step has set: what would be restored is a state the  *)
(* light had before any celebration began.                                 *)
C3_SnapshotBeforeCelebration ==
    RestoreTarget # None => Get(RestoreTarget).by = "user"

(* C4: while a celebration task runs its steps and has not been cancelled, *)
(* get_current_interrupt returns an active record that carries the amount  *)
(* and the pattern of the trigger that started this task.                  *)
C4_StatusMatchesRun ==
    \A t \in Calls :
        (task[t].pc \in {"control", "sleep"} /\ ~task[t].cancel)
        => /\ get_current_interrupt # None
           /\ Get(get_current_interrupt).is_active
           /\ Get(get_current_interrupt).amount = trig[t].amount
           /\ Get(get_current_interrupt).pattern.name = trig[t].result.pattern

(* C5: a stop that begins when no session is active reports that nothing   *)
(* was stopped, sends no device command and leaves the manager unchanged.  *)
C5_IdleStopIsNoOp ==
    [][\A s \in Stops :
          (Idle /\ stop[s].pc = "start" /\ stop'[s].pc # "start")
          => /\ stop'[s].pc = "returned"
             /\ stop'[s].result = "no_interrupt_active"
             /\ UNCHANGED << dev, current_interrupt, original_state,
                             interrupt_task, task >>]_vars

\* the task t will send no further step: a cancellation is pending, or it
\* is past its step sequence
Stopped(t) == task[t].cancel \/ task[t].pc \in {"restore", "done", "dropped"}

(* C6: a stop of a celebrating session cancels the running task and sends  *)
(* the restore of the saved state; when it returns it reports that an      *)
(* interrupt was stopped and get_current_interrupt returns None; a stopped *)
(* task stays stopped and sends no further step.                           *)
C6_StopCancelsAndRestores ==
    [][/\ \A s \in Stops :
            (is_active /\ stop[s].pc = "start" /\ stop'[s].pc # "start")
            => /\ Stopped(Get(interrupt_task))'
               /\ IF RestoreTarget # None
                  THEN /\ StopIssuesRestore(s)
                       /\ dev' \in {dev, Get(RestoreTarget)}
                  ELSE stop'[s].pc = "returned" /\ dev' = dev
       /\ \A s \in Stops :
            (interrupt_task # None /\ stop[s].pc # "returned"
               /\ stop'[s].pc = "returned")
            => /\ stop'[s].result = "interrupt_stopped"
               /\ get_current_interrupt' = None
       /\ \A t \in Calls :
            Stopped(t) => Stopped(t)' /\ ~IssuesStep(t)]_vars

\* a stop has cancelled a task in the middle of its steps and has sent the
\* restore
C6_Witness ==
    \E s \in Stops, t \in Calls :
        /\ stop[s].pc = "restoring"
        /\ interrupt_task = Some(t)
        /\ task[t].cancel /\ task[t].pc = "sleep" /\ task[t].idx = 2

(* C7: a snapshot that fails leaves the saved state None and the trigger   *)
(* returns its acceptance; while the saved state is None no restore        *)
(* request is sent, a run that is not cancelled goes on through its steps  *)
(* and ends with get_current_interrupt returning None.                     *)
C7_FailedSnapshot ==
    [][/\ \A c \in Calls :
            (trig[c].pc = "save_devices" /\ trig'[c].pc = "returned")
            => /\ RestoreTarget' = None
               /\ trig'[c].result.status = "celebration_started"
               /\ task'[c].pc = "created"
       /\ \A c \in Calls :
            (trig[c].pc = "save_state" /\ trig'[c].pc = "returned")
            => /\ original_state' \in {None, SavedState(<< Some(dev) >>)}
               /\ trig'[c].result.status = "celebration_started"
               /\ task'[c].pc = "created"
       /\ original_state = None
            => /\ \A t \in Calls : ~TaskIssuesRestore(t)
               /\ \A s \in Stops : ~StopIssuesRestore(s)
       /\ \A t \in Calls :
            (original_state = None /\ task[t].pc = "sleep" /\ ~task[t].cancel
               /\ task'[t].pc # "sleep")
            => \/ task'[t].pc = "control"
               \/ /\ task'[t].pc = "done"
                  /\ task[t].elapsed
                       + PatternOf(t).patterns[task[t].idx].duration
                         >= PatternOf(t).duration
                  /\ get_current_interrupt' = None
                  /\ dev' = dev]_vars

\* the only trigger failed to take its snapshot and its celebration has run
\* through its steps to the end
C7_Witness ==
    /\ trig[1].pc = "returned" /\ trig[2].pc = "idle"
    /\ \A s \in Stops : stop[s].pc = "idle"
    /\ original_state = None
    /\ task[1].pc = "done"
    /\ dev.by = "step"
    /\ get_current_interrupt = None

(* C8: trigger_payment_celebration returns, in every state of the manager, *)
(* a result that names the pattern of the amount and its duration, and at  *)
(* its return the new celebration task exists and has not run yet.         *)
C8_TriggerAccepts ==
    [][\A c \in Calls :
          (trig[c].pc # "returned" /\ trig'[c].pc = "returned")
          => /\ trig'[c].result =
                  [status |-> "celebration_started",
                   pattern |-> TierOf(trig[c].amount),
                   duration |-> TierDuration(TierOf(trig[c].amount)),
                   amount |-> trig[c].amount]
             /\ task'[c].pc = "created"
             /\ interrupt_task' = Some(c)
             /\ InSeq(<<"task", c>>, ready')]_vars

\* a trigger has returned while the celebration of an earlier one was in
\* the middle of its steps
C8_Witness ==
    /\ trig[2].pc = "returned" /\ task[2].pc = "created"
    /\ task[1].pc = "sleep" /\ task[1].cancel

(* C9: every session returns the manager to idle.  Under fair scheduling, *)
(* once a trigger has returned, get_current_interrupt eventually returns  *)
(* None, and when the triggers have ceased it stays None.                 *)
C9_ReturnsToIdle ==
    /\ \A c \in Calls :
          (trig[c].pc = "returned") ~> (get_current_interrupt = None)
    /\ <>[](get_current_interrupt = None)

\* a celebration has ended after its restore request and the manager is idle
C9_Witness ==
    /\ trig[1].pc = "returned" /\ task[1].pc = "done"
    /\ original_state # None /\ RestoreTarget # None
    /\ dev.by = "step"
    /\ get_current_interrupt = None

\* the steps of a pattern, by name
TierHolds(name) ==
    CASE name = "Premium Celebration" -> << 2, 2, 1, 2 >>
      [] name = "Major Sale" -> << 2, 2, 1 >>
      [] name = "Standard Celebration" -> << 3, 1 >>
      [] name = "Mini Celebration" -> << 2, 1 >>

\* the amounts (cents) and names of the tier determinism test
TierExamples ==
    { << 0, "Mini Celebration" >>, << 1999, "Mini Celebration" >>,
      << 2000, "Standard Celebration" >>, << 4999, "Standard Celebration" >>,
      << 5000, "Major Sale" >>, << 9999, "Major Sale" >>,
      << 10000, "Premium Celebration" >>, << 50000, "Premium Celebration" >> }

(* C10: the pattern selected for an amount is the one of the highest tier  *)
(* whose inclusive lower bound the amount reaches, with the duration,      *)
(* the number of steps and the holds of that tier.                         *)
C10_TierSelection ==
    trig[1].pc = "returned" =>
        LET a == trig[1].amount
            p == Get(current_interrupt).pattern
        IN /\ p.name = TierOf(a)
           /\ p.duration = TierDuration(p.name)
           /\ Len(p.patterns) = Len(TierHolds(p.name))
           /\ \A i \in 1..Len(p.patterns) :
                 p.patterns[i].duration = TierHolds(p.name)[i]
           /\ \A e \in TierExamples : e[1] = a => p.name = e[2]
           /\ trig[1].result.pattern = p.name
           /\ trig[1].result.duration = p.duration

\* the selector has run on 20.00, the lowest amount of the Standard tier
C10_Witness ==
    /\ trig[1].pc = "returned" /\ trig[1].amount = 2000
    /\ Get(current_interrupt).pattern.name = "Standard Celebration"

\* the thresholds of the specification's table with their amounts ($)
MilestoneTable ==
    { << 100, 5 >>, << 500, 10 >>, << 1000, 15 >>, << 5000, 25 >>,
      << 10000, 50 >>, << 50000, 75 >>, << 100000, 100 >>,
      << 500000, 200 >>, << 1000000, 500 >> }

\* some named threshold lies in (previous, current]
NamedCrossed(previous, current) ==
    \E m \in MilestoneTable : previous < m[1] /\ m[1] <= current

\* a multiple of 1000 lies in (previous, current]
ThousandCrossed(previous, current) ==
    \E k \in 0..(current \div 1000) :
        previous < k * 1000 /\ k * 1000 <= current

\* the result of a milestone check has come back without a fetch error
MilestoneChecked ==
    milestone_check # None /\ ~Get(milestone_check).result.error

(* C11: milestone detection is edge-triggered.  A check of (previous,       *)
(* current) reports should_celebrate exactly when a named threshold lies   *)
(* in (previous, current], or current >= 10000 and a multiple of 1000 lies *)
(* in (previous, current]; it reports one milestone at most: 950 -> 1000   *)
(* fires 1000 at $15, 1000 -> 1050 fires nothing, 10500 -> 11500 fires     *)
(* 11000 at $50.                                                           *)
C11_EdgeTriggered ==
    MilestoneChecked =>
        LET r == Get(milestone_check).result
            previous == r.previous_subscribers
            current == r.current_subscribers
        IN /\ r.should_celebrate <=>
                \/ NamedCrossed(previous, current)
                \/ current >= 10000 /\ ThousandCrossed(previous, current)
           /\ r.should_celebrate <=> r.milestone_reached # None
           /\ (previous = 950 /\ current = 1000)
                => /\ r.milestone_reached = Some(1000)
                   /\ r.celebration_amount = 15
           /\ (previous = 1000 /\ current = 1050) => ~r.should_celebrate
           /\ (previous = 10500 /\ current = 11500)
                => /\ r.milestone_reached = Some(11000)
                   /\ r.celebration_amount = 50

\* the check of 10500 -> 11500 has reported its one milestone
C11_Witness ==
    /\ MilestoneChecked
    /\ Get(milestone_check).result.previous_subscribers = 10500
    /\ Get(milestone_check).result.current_subscribers = 11500
    /\ Get(milestone_check).result.should_celebrate

(* C12: when named thresholds are crossed (previous < T <= current), the   *)
(* celebration amount of the check is the table amount of the highest      *)
(* named threshold crossed.                                                *)
C12_TableAmount ==
    MilestoneChecked =>
        LET r == Get(milestone_check).result
            previous == r.previous_subscribers
            current == r.current_subscribers
        IN \A m \in MilestoneTable :
              (/\ previous < m[1] /\ m[1] <= current
               /\ \A n \in MilestoneTable :
                     (previous < n[1] /\ n[1] <= current) => n[1] <= m[1])
              => r.celebration_amount = m[2]

(* C13: a threshold crossing fires at most once.  While the subscriber     *)
(* count of the channel stays at one value, at most one milestone check    *)
(* (of the background task or of the endpoint) reports should_celebrate.   *)
C13_FiresOnce == fires <= 1

\* the admissions whose recorded time lies in the window [t, t + w)
InWindow(t, w) ==
    { i \in 1..Len(admitted) : t <= admitted[i] /\ admitted[i] < t + w }

(* C14: rate limiter bound.  For a limiter of max_requests N and           *)
(* time_window W, no window of length W holds the recorded times of more   *)
(* than N admitted calls; with N = 10 and W = 60 the 11th call is admitted *)
(* no earlier than 60 s after the 1st; every call returns having recorded  *)
(* one timestamp, the time of its admission: the recorded list is the tail *)
(* of the admissions.                                                      *)
C14_RateLimiterBound ==
    LET rq == limiter.requests
        n == Len(admitted)
    IN /\ \A t \in 0..now :
             Cardinality(InWindow(t, limiter.time_window))
                <= limiter.max_requests
       /\ (limiter.max_requests = 10 /\ limiter.time_window = 60 /\ n >= 11)
             => admitted[11] >= admitted[1] + 60
       /\ n > 0 => /\ Len(rq) >= 1 /\ Len(rq) <= n
                   /\ rq[Len(rq)] = admitted[n]
                   /\ \A k \in 1..Len(rq) : rq[k] = admitted[n - Len(rq) + k]
       /\ \A i \in 1..n : admitted[i] <= now

\* fifteen calls in a row from second 0 to the default limiter: ten are
\* admitted at once, the eleventh at second 60
C14_Witness ==
    /\ limiter.max_requests = 10 /\ limiter.time_window = 60
    /\ Len(admitted) = 15
    /\ admitted[10] = 0 /\ admitted[11] = 60 /\ admitted[15] = 60

\* an operation returns in this step
Returns(name) == op'.n # op.n /\ op'.name = name

\* the requests of the operation that change the device
ControlRequests(h) == { k \in 1..Len(h) : h[k].kind = "control" }

\* the operations that send a command to the device
ControlOps == {"set_color", "set_brightness", "turn", "trigger_diy_scene"}

\* the operations of the device client
ClientOps == {"get_devices", "set_color", "set_brightness", "turn"}

(* C15: every request that changes the device goes through the shared rate *)
(* limiter: an operation calls wait_if_needed once for each control        *)
(* request it sends.                                                       *)
C15_ControlLimited ==
    [][op'.n # op.n =>
          /\ Cardinality(ControlRequests(op'.http))
                <= Len(admitted') - Len(admitted)
          /\ \A k \in ControlRequests(op'.http) : op'.http[k].limited]_vars

\* the returned set_brightness was refused: no request, no limiter slot
Refused ==
    /\ op'.value = "False" /\ op'.raised = "none"
    /\ op'.http = << >>
    /\ limiter' = limiter /\ admitted' = admitted /\ now' = now

\* the returned operation has sent exactly one command, of the given name
SentOne(cmd) ==
    /\ op'.http = << Http("control", cmd, TRUE) >>
    /\ Len(admitted') = Len(admitted) + 1

(* C16 as claimed: set_brightness returns false, sends nothing and takes   *)
(* no limiter slot for a brightness outside 0..100, and sends exactly one  *)
(* brightness command for every brightness inside 0..100.                  *)
C16_BrightnessAsClaimed ==
    [][Returns("set_brightness") =>
          IF op'.arg < 0 \/ op'.arg > 100 THEN Refused
          ELSE SentOne("brightness")]_vars

(* C16, amended: set_brightness returns false, sends nothing and takes no  *)
(* limiter slot for a brightness outside 0..100; for a brightness inside   *)
(* 0..100 it sends exactly one brightness command when the API key, the    *)
(* device id and the model are configured, and returns false without a     *)
(* request when one of them is missing.                                    *)
C16_Brightness ==
    [][Returns("set_brightness") =>
          IF op'.arg < 0 \/ op'.arg > 100 THEN Refused
          ELSE IF AllCredentials \subseteq creds THEN SentOne("brightness")
          ELSE Refused]_vars

\* set_brightness(101) has been refused after an operation that took a
\* slot of the limiter
C16_Witness ==
    /\ op.name = "set_brightness" /\ op.arg = 101 /\ op.value = "False"
    /\ op.http = << >>
    /\ AllCredentials \subseteq creds
    /\ Len(admitted) = 1 /\ Len(limiter.requests) = 1

(* C17: set_color with a component outside 0..255 returns false and sends  *)
(* no HTTP request.                                                        *)
C17_ColorRejected ==
    (op.name = "set_color"
       /\ \E k \in 1..3 : op.arg[k] < 0 \/ op.arg[k] > 255)
    => op.value = "False" /\ op.http = << >>

(* C18: a device command is reported as a success only when the response   *)
(* has status 200 and body code 200; a status 200 with an error code in    *)
(* the body is reported as a failure.                                      *)
C18_SuccessNeedsCode200 ==
    (op.name \in ControlOps /\ op.value \in {"True", "success"})
    => op.resp = "200/200"

(* C19: a failure of a device client operation becomes its failure value   *)
(* and is not retried: get_devices, set_color, set_brightness and the      *)
(* power commands never raise, return false (or no devices) for a status   *)
(* other than 200, a timeout or a transport error, and send one HTTP       *)
(* request at most.                                                        *)
C19_FailuresAreValues ==
    op.name \in ClientOps =>
        /\ op.raised = "none"
        /\ op.resp \in {"500", "timeout", "transport"}
             => op.value = IF op.name = "get_devices" THEN "[]" ELSE "False"
        /\ op.value \in (IF op.name = "get_devices" THEN {"devices", "[]"}
                         ELSE {"True", "False"})
        /\ Len(op.http) <= 1

\* a power command whose request timed out has returned false after its
\* one request
C19_Witness ==
    /\ op.name = "turn" /\ op.resp = "timeout"
    /\ op.value = "False" /\ Len(op.http) = 1

\* the handler answers the request h in this step
Responds(h) == hook[h].pc = "idle" /\ hook'[h].pc = "responded"

(* C20: lighting failures never fail the payment flow.  The webhook        *)
(* handler answers every verified event of a payment type with its success *)
(* response, and the answer stands whatever happens to the snapshot, the   *)
(* device commands and the celebration; a request with an invalid payload  *)
(* or signature is answered 400 and no celebration is ever triggered for   *)
(* it.                                                                     *)
C20_PaymentFlowNeverFails ==
    [][\A h \in Calls :
          /\ Responds(h) =>
                LET ev == hook'[h].event
                IN /\ (ev.verified = "event" /\ ev.type \in PaymentTypes)
                        => hook'[h].response =
                              [status_code |-> 200, body |-> "success"]
                   /\ ev.verified # "event"
                        => /\ hook'[h].response.status_code = 400
                           /\ UNCHANGED << trig, ready, task,
                                           current_interrupt, original_state,
                                           interrupt_task, dev >>
          /\ hook[h].pc = "responded" =>
                /\ hook'[h] = hook[h]
                /\ hook[h].event.verified # "event"
                     => trig'[h].pc = "idle" /\ task'[h].pc = "none"]_vars

\* a payment was answered with success; its snapshot failed, its
\* celebration found no device and ended, and the light is untouched
C20_Witness ==
    /\ hook[1].pc = "responded" /\ hook[1].event.type \in PaymentTypes
    /\ hook[1].response.status_code = 200
    /\ trig[1].pc = "returned" /\ original_state = None
    /\ task[1].pc = "done" /\ dev.by = "user"
    /\ hook[2].pc = "responded" /\ hook[2].event.verified = "ValueError"
    /\ trig[2].pc = "idle"

\* an invocation of /cron returns in this step
CronReturns == cron'.n = cron.n + 1

(* C21: the /cron poller is idempotent.  While the subscriber count and    *)
(* the upcoming calendar events stay as they are, an invocation that       *)
(* follows another one (both having read the two services without an       *)
(* error) queues no celebration and leaves the stored last_subscriber_count *)
(* as it is.                                                               *)
C21_CronIdempotent ==
    [][(CronReturns /\ cron.n >= 1 /\ cron.reads = "ok" /\ cron'.reads = "ok")
          => /\ cron'.queued = << >>
             /\ user_settings' = user_settings]_vars

\* the restore sequences that have been sent and not yet answered: those of
\* the celebration tasks and those of the stop calls
RestoresInProgress ==
    Cardinality({t \in Calls : task[t].pc = "restore"})
      + Cardinality({s \in Stops : stop[s].pc = "restoring"})

(* C22: restore never runs concurrently with another restore.  Under every *)
(* interleaving of triggers, stops and cancellations, at most one restore   *)
(* sequence is in progress, so that the restore of a saved state is not     *)
(* issued a second time while the first is under way.                       *)
C22_OneRestoreAtATime == RestoresInProgress <= 1

\* a caller is waiting inside wait_if_needed for a slot to free up
WaitingInLimiter == thread # None

(* C23: the rate limiter's wait is a cooperative suspension point.  While a *)
(* caller waits inside wait_if_needed and a coroutine of the payment       *)
(* interrupt manager (a trigger, a stop, the cancelled celebration) is     *)
(* ready to run, the process can take a step of the manager before the     *)
(* wait ends.                                                              *)
C23_WaitIsCooperative ==
    (WaitingInLimiter /\ ready # << >>)
    => ENABLED (NextBlocking /\ payvars' # payvars)

\* the hold durations the task t has slept through when its sleep ends
SleptThrough(t) ==
    task[t].elapsed + PatternOf(t).patterns[task[t].idx].duration

(* C24: a failed step does not abort the sequence.  Whether the control    *)
(* request of a step succeeded or failed, a celebration that is not        *)
(* cancelled sleeps for the hold of that step next, goes on from the sleep *)
(* to the step that follows while the total duration has not elapsed, and  *)
(* reaches its restore once it has: it ends only through the restore.      *)
C24_FailedStepContinues ==
    [][\A t \in Calls :
          /\ (task[t].pc = "control" /\ ~task[t].cancel
                /\ task'[t].pc # "control")
             => /\ task'[t].pc = "sleep"
                /\ task'[t].idx = task[t].idx
                /\ task'[t].elapsed = task[t].elapsed
          /\ (task[t].pc = "sleep" /\ ~task[t].cancel
                /\ task'[t].pc # "sleep")
             => IF SleptThrough(t) < PatternOf(t).duration
                THEN /\ task'[t].pc = "control"
                     /\ task'[t].elapsed = SleptThrough(t)
                ELSE IF RestoreTarget # None
                THEN task'[t].pc = "restore" /\ task'[t].phase = "normal"
                ELSE task'[t].pc = "done"]_vars

\* the control requests of all seven steps of a Mini celebration have
\* failed (the light still shows the user's state, and nothing else has
\* been sent to it) and the run is in the hold of its seventh step
C24_Witness ==
    /\ task[1].pc = "sleep" /\ ~task[1].cancel
    /\ trig[1].amount = 500 /\ task[1].idx = 1 /\ task[1].elapsed = 9
    /\ dev.by = "user"
    /\ trig[2].pc = "idle" /\ \A s \in Stops : stop[s].pc = "idle"

\* the commands of the requests the returned operation has sent
Commands(h) == { h[k].cmd : k \in 1..Len(h) }

(* C25: restore is conditional on the saved state.  restore_light_state    *)
(* sends no power, brightness or colour command when no state was saved or *)
(* the saved power was off; when the saved power was on it sends the power *)
(* command, the brightness command exactly when the saved brightness is    *)
(* above 0, and the colour command exactly when the saved colour is        *)
(* neither black nor white.                                                *)
C25_RestoreConditional ==
    op.name = "restore_light_state" =>
        LET saved == op.arg
            sent == Commands(op.http)
        IN IF saved = None \/ Get(saved).power # Some(1)
           THEN sent \cap {"powerSwitch", "brightness", "colorRgb"} = {}
           ELSE /\ "powerSwitch" \in sent
                /\ "brightness" \in sent
                     <=> /\ Get(saved).brightness # None
                         /\ Get(Get(saved).brightness) > 0
                /\ "colorRgb" \in sent
                     <=> /\ Get(saved).color # None
                         /\ Get(Get(saved).color) \notin {0, 16777215}

(* C26 as claimed: step execution order.  A celebration that is not        *)
(* cancelled issues the steps of its pattern in the pattern's order, each  *)
(* step once: the first request it sends is that of step 1, and each       *)
(* further step it sends is the one after the step whose hold it has just  *)
(* slept through; once it is at its restore it sends no step.              *)
C26_StepsOnceInOrder ==
    [][\A t \in Calls :
          /\ (IssuesStep(t) /\ ~task[t].cancel)
                => task'[t].idx = task[t].idx + 1
          /\ task[t].pc \in {"restore", "done"} => ~IssuesStep(t)]_vars

\* the step that follows step i in a pattern of n steps, the first step
\* following the last
NextInCycle(i, n) == (i % n) + 1

(* C26, amended: a celebration that is not cancelled issues the steps of   *)
(* its pattern in the pattern's order and starts again with the first step *)
(* after the last, for as long as the total duration has not elapsed at    *)
(* the end of a hold: every step it sends follows the start of the run or  *)
(* the hold of the step before it in the cycle and carries the colour and  *)
(* brightness of its own position; when the duration has elapsed at the    *)
(* end of a hold the run goes to its restore, and once it is there it      *)
(* sends no step.                                                          *)
C26_StepsCycleInOrder ==
    [][\A t \in Calls :
          /\ (IssuesStep(t) /\ ~task[t].cancel)
                => /\ task'[t].idx =
                         NextInCycle(task[t].idx, Len(PatternOf(t).patterns))
                   /\ dev' \in {dev,
                                StepLook(PatternOf(t).patterns[task'[t].idx])}
                   /\ task[t].pc = "sleep"
                         => SleptThrough(t) < PatternOf(t).duration
          /\ (task[t].pc = "sleep" /\ ~task[t].cancel /\ task'[t].pc # "sleep"
                /\ SleptThrough(t) >= PatternOf(t).duration)
                => task'[t].pc \in {"restore", "done"}
          /\ task[t].pc \in {"restore", "done"} => ~IssuesStep(t)]_vars

\* a Mini celebration has been through its two steps and has sent the
\* first step again, which the light shows
C26_Witness ==
    /\ task[1].pc = "control" /\ ~task[1].cancel
    /\ trig[1].amount = 500 /\ task[1].idx = 1 /\ task[1].elapsed = 3
    /\ dev = StepLook(PatternOf(1).patterns[1])

\* the background task's check_for_new_subscribers returns a count in this
\* step: the poll cycle goes on to its milestone check
TaskCounts == poll = "idle" /\ poll' = "milestone"

(* C27: the background monitor detects crossings between polls.  When the  *)
(* count check_for_new_subscribers fetches in a poll cycle and the count   *)
(* stored by the previous poll satisfy previous < T <= current for a named *)
(* threshold T, the milestone check of that cycle, made next on the same   *)
(* count, reports should_celebrate.                                        *)
C27_PollDetectsCrossing ==
    [][TaskCounts =>
          LET counted == Get(subscriber_check').result
          IN NamedCrossed(counted.previous_subscribers,
                          counted.current_subscribers)
             => (check_subscriber_milestone("ok").should_celebrate)']_vars

(* C28: a detected milestone reaches the orchestrator.  Whenever a         *)
(* milestone check of the background task or of the endpoint reports       *)
(* should_celebrate, the caller's call of trigger_payment_celebration      *)
(* binds its arguments and runs; it does not end in an error.              *)
C28_MilestoneReachesOrchestrator ==
    (milestone_check # None /\ Get(milestone_check).result.should_celebrate)
    => Get(milestone_check).trigger = "bound"

\* check_for_new_subscribers returns to a caller in this step
CountReturns == subscriber_check' # None

\* a milestone check returns to a caller in this step
MilestoneReturns == milestone_check' # None

(* C29: check_for_new_subscribers keeps the stored count equal to the last *)
(* count it has observed.  A fetch that succeeds is reported with          *)
(* new_subscribers = max(0, current - previous) and has_new_subscribers    *)
(* exactly when current > previous, and last_subscriber_count becomes the  *)
(* current count; a fetch that fails is returned as its error and leaves   *)
(* last_subscriber_count as it is; a milestone check never changes         *)
(* last_subscriber_count.                                                  *)
C29_StoredCount ==
    [][/\ CountReturns =>
            LET r == Get(subscriber_check').result
                current == channel
                previous == last_subscriber_count
            IN IF r.error
               THEN last_subscriber_count' = last_subscriber_count
               ELSE /\ r.current_subscribers = current
                    /\ r.previous_subscribers = previous
                    /\ r.new_subscribers =
                          (IF current > previous THEN current - previous
                           ELSE 0)
                    /\ r.has_new_subscribers <=> current > previous
                    /\ last_subscriber_count' = current
       /\ MilestoneReturns
            => last_subscriber_count' = last_subscriber_count]_vars

\* the count has fallen from 1000 to 999: the check has reported no new
\* subscriber and has stored 999
C29_Witness ==
    /\ subscriber_check # None
    /\ Get(subscriber_check).result.previous_subscribers = 1000
    /\ Get(subscriber_check).result.current_subscribers = 999
    /\ Get(subscriber_check).result.new_subscribers = 0
    /\ ~Get(subscriber_check).result.has_new_subscribers
    /\ last_subscriber_count = 999

(* C30: a celebration does not outlast the total duration of its pattern.  *)
(* With device calls that take no time, an uncancelled run starts no step  *)
(* once the total duration has elapsed since it began, and the holds it    *)
(* has slept through never add up to more than the total duration.         *)
C30_WithinDuration ==
    [][\A t \in Calls :
          /\ (IssuesStep(t) /\ ~task[t].cancel)
                => task'[t].elapsed < PatternOf(t).duration
          /\ (task[t].pc = "sleep" /\ ~task[t].cancel
                /\ task'[t].pc # "sleep")
                => SleptThrough(t) <= PatternOf(t).duration]_vars

====
